---- MODULE Spec2Model ----
(***************************************************************************)
(* DevStack Architect: the session state controller of App.tsx together    *)
(* with the gateways of the gemini service it drives.                      *)
(*                                                                         *)
(* React state of <App> is the tuple of useState cells; every handler is   *)
(* one action that contains the state updates it batches and the effect    *)
(* (runAnalysis) that React runs after the resulting render.  Every await  *)
(* of a remote call is a request in flight that a later action answers.    *)
(***************************************************************************)
EXTENDS Bags, FiniteSets, Integers, Sequences, TLC

(***************************************************************************)
(* Bounds of the model                                                     *)
(***************************************************************************)
MaxAnalysisInFlight == 2
MaxGenInFlight == 2

(***************************************************************************)
(* Values                                                                  *)
(***************************************************************************)
Null == <<>>
Some(x) == <<x>>

NoError == "null"

IDLE == "IDLE"
ANALYZING == "ANALYZING"
GENERATING_CODE == "GENERATING_CODE"
COMPLETE == "COMPLETE"
ERROR == "ERROR"
AnalysisStatus == {IDLE, ANALYZING, GENERATING_CODE, COMPLETE, ERROR}

LANGUAGES == {"Go"}
FRONTEND_FRAMEWORKS == {"React"}
BACKEND_FRAMEWORKS == {"NestJS"}

EmptyStack == [language |-> "", frontendFramework |-> "", backendFramework |-> ""]

ViewModes == {"chat", "code", "demo"}

\* Feature records are identified by their title.
Titles == {"Login"}

(***************************************************************************)
(* Uploaded files                                                          *)
(***************************************************************************)
PdfMime == "application/pdf"
DocxMime == "application/vnd.openxmlformats-officedocument.wordprocessingml.document"

\* file.type is "" when the browser does not know the type, as for .md
Files == [type : {PdfMime, DocxMime, ""}, ext : {"pdf", "docx", "md"}]

\* The branch of handleFileUpload a file takes.
Branch(file) ==
    IF file.type = PdfMime \/ file.ext = "pdf" THEN "pdf"
    ELSE IF file.type = DocxMime \/ file.ext = "docx" THEN "docx"
    ELSE "text"

(***************************************************************************)
(* parseLegacyContent (App.tsx 14-44)                                      *)
(*                                                                         *)
(* A text is a sequence of tokens: the delimiter literal, a run of three   *)
(* hyphens, a newline, and the pieces the three key patterns look for.     *)
(***************************************************************************)
DELIM == "--- START OF FILE text/plain ---"
FENCE == "---"
NL == "\\n"
TXT == "text"
TitleLogin == "title: \"Login\""
TitleSearch == "title: \"Search\""
TitleEmpty == "title: \"\""
TypeCore == "type: \"Core\""
IconUser == "icon: \"User\""

\* What /type:\s*"([^"]+)"/, /title:\s*"([^"]+)"/ and /icon:\s*"([^"]+)"/
\* capture in a token, "" when the pattern does not match it.
Capture(tok, key) ==
    IF key = "title" THEN (IF tok = TitleLogin THEN "Login" ELSE IF tok = TitleSearch THEN "Search" ELSE "")
    ELSE IF key = "type" THEN (IF tok = TypeCore THEN "Core" ELSE "")
    ELSE (IF tok = IconUser THEN "User" ELSE "")

IsSpace(tok) == tok = NL

\* String.prototype.trim
RECURSIVE trimStart(_)
trimStart(t) == IF t # <<>> /\ IsSpace(Head(t)) THEN trimStart(Tail(t)) ELSE t

RECURSIVE trimEnd(_)
trimEnd(t) == IF t # <<>> /\ IsSpace(t[Len(t)]) THEN trimEnd(SubSeq(t, 1, Len(t) - 1)) ELSE t

trim(t) == trimEnd(trimStart(t))

\* text.split(DELIM): cur is the part being collected.
RECURSIVE splitFrom(_, _)
splitFrom(text, cur) ==
    IF text = <<>> THEN <<cur>>
    ELSE IF Head(text) = DELIM THEN <<cur>> \o splitFrom(Tail(text), <<>>)
    ELSE splitFrom(Tail(text), Append(cur, Head(text)))

split(text) == splitFrom(text, <<>>)

\* The end of the lazy group of /---\n([\s\S]*?)\n---/: the first newline at
\* or after j that three hyphens follow; 0 when there is none.
RECURSIVE closeFrom(_, _)
closeFrom(part, j) ==
    IF j + 1 > Len(part) THEN 0
    ELSE IF part[j] = NL /\ part[j + 1] = FENCE THEN j
    ELSE closeFrom(part, j + 1)

\* part.match(/---\n([\s\S]*?)\n---/): the leftmost match, as the positions of
\* its first and last token; first = 0 when nothing matches.
RECURSIVE matchFrom(_, _)
matchFrom(part, i) ==
    IF i + 3 > Len(part) THEN [first |-> 0, last |-> 0]
    ELSE IF part[i] = FENCE /\ part[i + 1] = NL /\ closeFrom(part, i + 2) # 0
         THEN [first |-> i, last |-> closeFrom(part, i + 2) + 1]
    ELSE matchFrom(part, i + 1)

frontMatterMatch(part) == matchFrom(part, 1)

\* The first capture of a key pattern in the front matter, "" when none.
RECURSIVE firstCapture(_, _)
firstCapture(fm, key) ==
    IF fm = <<>> THEN ""
    ELSE IF Capture(Head(fm), key) # "" THEN Capture(Head(fm), key)
    ELSE firstCapture(Tail(fm), key)

\* Mutation: a part whose front matter has no title is pushed as well.
parsePartUntitled(part) ==
    IF trim(part) = <<>> THEN <<>>
    ELSE LET m == frontMatterMatch(part)
         IN IF m.first = 0 THEN <<>>
            ELSE LET frontMatter == SubSeq(part, m.first + 2, m.last - 2)
                     body == trim(SubSeq(part, 1, m.first - 1) \o SubSeq(part, m.last + 1, Len(part)))
                     title == firstCapture(frontMatter, "title")
                     type == firstCapture(frontMatter, "type")
                     icon == firstCapture(frontMatter, "icon")
                 IN <<[type |-> IF type # "" THEN type ELSE "unknown",
                       title |-> title,
                       icon |-> IF icon # "" THEN icon ELSE "file",
                       content |-> body,
                       raw |-> part]>>

\* The body of parts.forEach: the records one part contributes.
parsePart(part) ==
    IF trim(part) = <<>> THEN <<>>
    ELSE LET m == frontMatterMatch(part)
         IN IF m.first = 0 THEN <<>>
            ELSE LET frontMatter == SubSeq(part, m.first + 2, m.last - 2)
                     body == trim(SubSeq(part, 1, m.first - 1) \o SubSeq(part, m.last + 1, Len(part)))
                     title == firstCapture(frontMatter, "title")
                     type == firstCapture(frontMatter, "type")
                     icon == firstCapture(frontMatter, "icon")
                 IN IF title = "" THEN <<>>
                    ELSE <<[type |-> IF type # "" THEN type ELSE "unknown",
                            title |-> title,
                            icon |-> IF icon # "" THEN icon ELSE "file",
                            content |-> body,
                            raw |-> part]>>

RECURSIVE parseParts(_)
parseParts(parts) ==
    IF parts = <<>> THEN <<>> ELSE parsePart(Head(parts)) \o parseParts(Tail(parts))

parseLegacyContent(text) == parseParts(split(text))

\* The features of the session are identified by their titles.
FeatureTitles(records) == [k \in 1..Len(records) |-> records[k].title]

\* Mutation: every text counts as non-blank.
NonBlankAlways(text) == TRUE

\* text.trim().length > 0
NonBlank(text) == trim(text) # <<>>

\* A document: its parts, each after a delimiter.
RECURSIVE join(_)
join(parts) == IF parts = <<>> THEN <<>> ELSE <<DELIM>> \o Head(parts) \o join(Tail(parts))

\* The parts of the uploaded plain-text documents: front matter without a
\* title, and front matter with one.
Segments == {<<NL, FENCE, NL, TypeCore, NL, FENCE, NL, TXT, NL>>,
             <<NL, FENCE, NL, TypeCore, NL, TitleLogin, NL, IconUser, NL, FENCE, NL, TXT, NL>>}

\* The texts of the uploaded plain-text files: the empty file, and the
\* documents of one part.
Texts == {<<>>} \cup {join(<<seg>>) : seg \in Segments}

(***************************************************************************)
(* Remote responses                                                        *)
(***************************************************************************)
\* A response of ai.models.generateContent: the call throws, or returns a
\* response whose text is empty, is not JSON, or is the JSON of a value.
Resp(kind, value) == [kind |-> kind, value |-> value]

\* parseDocumentWithGemini: the feature extraction gateway.
ParseResponses == {Resp("throw", <<>>), Resp("empty", <<>>), Resp("garbage", <<>>)}
                  \cup {Resp("json", f) : f \in {<<>>, <<"Login">>}}

Threw == [threw |-> TRUE, value |-> <<>>]
Returned(v) == [threw |-> FALSE, value |-> v]

parseDocumentWithGemini(resp) ==
    IF resp.kind = "throw" THEN Threw
    ELSE IF resp.kind = "empty" THEN Returned(<<>>)
    ELSE IF resp.kind = "garbage" THEN Threw
    ELSE Returned(resp.value)

\* analyzeRequirementsFast: the analysis gateway.
AnalysisResponses == {Resp("throw", ""), Resp("text", ""), Resp("text", "Use NestJS modules.")}

\* Mutation: an empty response text is returned as it is.
analyzeRequirementsFastNoFallback(resp) ==
    IF resp.kind = "throw" THEN [threw |-> TRUE, value |-> ""]
    ELSE [threw |-> FALSE, value |-> resp.value]

analyzeRequirementsFast(resp) ==
    IF resp.kind = "throw" THEN [threw |-> TRUE, value |-> ""]
    ELSE [threw |-> FALSE,
          value |-> IF resp.value # "" THEN resp.value ELSE "No analysis generated."]

\* generateCodeScaffold: the scaffold gateway.
GeneratedScaffold ==
    [files |-> <<[path |-> <<"backend", "src", "main.ts">>, content |-> "bootstrap()", language |-> "typescript"]>>,
     readme |-> "# Run",
     demoHtml |-> "<html><head></head><body>demo</body></html>"]

PlaceholderScaffold ==
    [files |-> <<>>,
     readme |-> "Error parsing generation result.",
     demoHtml |-> "<div style='padding:20px;color:red'>Error generating demo.</div>"]

NoScaffold == [files |-> <<>>, readme |-> "", demoHtml |-> ""]

GenResponses == {Resp("throw", NoScaffold), Resp("empty", NoScaffold),
                 Resp("garbage", NoScaffold), Resp("json", GeneratedScaffold)}

\* Mutation: a response that is not JSON is thrown to the caller.
generateCodeScaffoldRethrows(resp) ==
    IF resp.kind = "throw" THEN [threw |-> TRUE, value |-> NoScaffold]
    ELSE IF resp.kind = "empty" THEN [threw |-> TRUE, value |-> NoScaffold]
    ELSE IF resp.kind = "json" THEN [threw |-> FALSE, value |-> resp.value]
    ELSE [threw |-> TRUE, value |-> NoScaffold]

\* Mutation: an empty response degrades to the placeholder as well.
generateCodeScaffoldEmptyPlaceholder(resp) ==
    IF resp.kind = "throw" THEN [threw |-> TRUE, value |-> NoScaffold]
    ELSE IF resp.kind = "json" THEN [threw |-> FALSE, value |-> resp.value]
    ELSE [threw |-> FALSE, value |-> PlaceholderScaffold]

generateCodeScaffold(resp) ==
    IF resp.kind = "throw" THEN [threw |-> TRUE, value |-> NoScaffold]
    ELSE IF resp.kind = "empty" THEN [threw |-> TRUE, value |-> NoScaffold]
    ELSE IF resp.kind = "json" THEN [threw |-> FALSE, value |-> resp.value]
    ELSE [threw |-> FALSE, value |-> PlaceholderScaffold]

(***************************************************************************)
(* State                                                                   *)
(***************************************************************************)
VARIABLES
    features,       \* useState<ParsedFeature[]>
    techStack,      \* useState<TechStack>
    analysis,       \* useState<string>
    status,         \* useState<AnalysisStatus>
    chatSession,    \* useState<Chat | null>: the features and stack it was created with
    codeScaffold,   \* useState<CodeScaffold | null>
    isParsing,      \* useState(false)
    parseError,     \* useState<string | null>
    viewMode,       \* useState<'chat' | 'code' | 'demo'>
    upload,         \* the position of the upload whose reader or extraction is pending
    analysisReqs,   \* bag of runAnalysis invocations awaiting analyzeRequirementsFast
    genReqs,        \* bag of handleGenerateCode invocations awaiting generateCodeScaffold
    ev,             \* history: the handler that ran last, and what it met
    doc,            \* the text handed to parseLegacyContent
    records,        \* what parseLegacyContent returned for doc, Null before the call
    messages,       \* ChatInterface: useState<ChatMessage[]>, <<>> while not mounted
    input,          \* ChatInterface: useState('')
    isLoading,      \* ChatInterface: useState(false)
    turns,          \* bag of handleSend invocations awaiting chatSession.sendMessage
    scaffoldProp,   \* CodePreview: the scaffold prop
    explorer,       \* CodePreview: allFiles and fileTree of a render, Null before it
    html,           \* LiveDemo: the html prop
    srcDoc,         \* LiveDemo: safeHtml of a render, Null before it
    listening,      \* LiveDemo: the DOMContentLoaded callback of the injected script has run
    domEvent        \* LiveDemo: the last click or submit event in the demo document

\* The state outside the App component's handlers: Spec and SpecHandler leave
\* it as it starts; SpecParser, SpecChat, SpecPreview and SpecDemo are about it.
views == <<scaffoldProp, explorer, html, srcDoc, listening, domEvent>>

components == <<doc, records, messages, input, isLoading, turns, views>>

vars == <<features, techStack, analysis, status, chatSession, codeScaffold,
          isParsing, parseError, viewMode, upload, analysisReqs, genReqs, ev,
          components>>

appState == <<features, techStack, analysis, status, chatSession, codeScaffold,
              isParsing, parseError, viewMode>>

NoFile == [type |-> "none", ext |-> "none"]

\* No upload is pending.  While the reader of an upload is pending, upload
\* holds the text of the file.
NoUpload == [pc |-> "none", branch |-> "none", text |-> <<>>]

Event(op, stale, outcome) ==
    [op |-> op, stale |-> stale, outcome |-> outcome, branch |-> "none", file |-> NoFile,
     prior |-> <<>>]

\* The event of a step of an upload, with the branch the upload took and, for
\* the step that chose the branch, the file it chose it for and the features
\* of the session it replaced.
UploadEvent(op, outcome, branch, file, prior) ==
    [op |-> op, stale |-> FALSE, outcome |-> outcome, branch |-> branch, file |-> file,
     prior |-> prior]

InitApp ==
    /\ features = <<>>
    /\ techStack = EmptyStack
    /\ analysis = ""
    /\ status = IDLE
    /\ chatSession = Null
    /\ codeScaffold = Null
    /\ isParsing = FALSE
    /\ parseError = NoError
    /\ viewMode = "chat"
    /\ upload = NoUpload
    /\ analysisReqs = EmptyBag
    /\ genReqs = EmptyBag
    /\ ev = Event("init", FALSE, "")

\* The messages ChatInterface itself writes (ChatInterface.tsx 12, 30, 43, 48).
Message(role, text) == [role |-> role, text |-> text]
Greeting == Message("model", "Hello! I am your AI Architect. I have reviewed your requirements. How can I help you build this?")
Loaded == Message("model", "Requirements loaded. I am ready to assist with your stack.")
NoReply == "I couldn't generate a response."
ChatFailed == "Sorry, I encountered an error processing your request."

\* ChatInterface as App first renders it: mounted, without a session.
InitChat ==
    /\ messages = <<Greeting>>
    /\ input = ""
    /\ isLoading = FALSE
    /\ turns = EmptyBag

InitDoc ==
    /\ doc = <<>>
    /\ records = Null

NoEvent == [type |-> "none", target |-> [link |-> FALSE, href |-> Null], prevented |-> FALSE]

\* CodePreview and LiveDemo before App renders them.
InitViews ==
    /\ scaffoldProp = NoScaffold
    /\ explorer = Null
    /\ html = <<>>
    /\ srcDoc = Null
    /\ listening = FALSE
    /\ domEvent = NoEvent

Init ==
    /\ InitApp
    /\ InitDoc
    /\ InitChat
    /\ InitViews

(***************************************************************************)
(* The analysis effect: useEffect(runAnalysis, [features, techStack,       *)
(* isParsing]).  It runs after every render in which one of the three      *)
(* changed identity, on the values of that render.                         *)
(***************************************************************************)
StackComplete(ts) ==
    ts.language # "" /\ ts.frontendFramework # "" /\ ts.backendFramework # ""

\* Mutation: the backend framework is not looked at.
runAnalysisGuardNoBackend(f, ts, parsing) ==
    Len(f) > 0 /\ ts.language # "" /\ ts.frontendFramework # "" /\ ~parsing

runAnalysisGuard(f, ts, parsing) ==
    Len(f) > 0 /\ StackComplete(ts) /\ ~parsing

Request(f, ts) == [features |-> f, stack |-> ts, stale |-> FALSE]

\* A call of generateCodeScaffold awaiting its response.  Nothing the handler
\* does after the await depends on the arguments of the call.
GenRequest == [stale |-> FALSE]

\* Mutation: the effect does not run again once an analysis has failed.
runAnalysisNotAfterError(f, ts, parsing, st, reqs) ==
    IF runAnalysisGuard(f, ts, parsing) /\ st # ERROR
    THEN /\ BagCardinality(reqs) < MaxAnalysisInFlight
         /\ status' = ANALYZING
         /\ analysisReqs' = reqs (+) SetToBag({Request(f, ts)})
    ELSE /\ status' = st
         /\ analysisReqs' = reqs

\* st is the status the handler itself left behind.
runAnalysis(f, ts, parsing, st, reqs) ==
    IF runAnalysisGuard(f, ts, parsing)
    THEN /\ BagCardinality(reqs) < MaxAnalysisInFlight
         /\ status' = ANALYZING
         /\ analysisReqs' = reqs (+) SetToBag({Request(f, ts)})
    ELSE /\ status' = st
         /\ analysisReqs' = reqs

\* Every request in flight when a new upload starts belongs to the previous
\* upload.  stale is a history field: no handler reads it.
MarkStale(bag) ==
    LET D == BagToSet(bag)
        T == {[r EXCEPT !.stale = TRUE] : r \in D}
    IN [t \in T |-> (IF t \in D THEN bag[t] ELSE 0)
                    + (IF [t EXCEPT !.stale = FALSE] \in D THEN bag[[t EXCEPT !.stale = FALSE]] ELSE 0)]

(***************************************************************************)
(* handleFileUpload (App.tsx 64-184)                                       *)
(***************************************************************************)
PdfFailed == "Failed to analyze PDF content. Ensure the file is text-readable."
DocxFailed == "Failed to analyze Word document."
TextNoFeatures == "No features detected in the file. Is it empty?"
TextFailed == "Failed to parse text file."
ReadFailed == "Error reading file."
UnexpectedFailed == "An unexpected error occurred during upload."

Outcome(ok, f, err) == [ok |-> ok, features |-> f, error |-> err]

\* Mutation: the PDF branch stores whatever the gateway returned.
pdfOnParsedUnchecked(r) ==
    IF r.threw THEN Outcome(FALSE, <<>>, PdfFailed)
    ELSE Outcome(TRUE, r.value, NoError)

\* The body of reader.onload after parseDocumentWithGemini settled with r.
pdfOnParsed(r) ==
    IF r.threw \/ Len(r.value) = 0 THEN Outcome(FALSE, <<>>, PdfFailed)
    ELSE Outcome(TRUE, r.value, NoError)

docxOnParsed(r) ==
    IF r.threw THEN Outcome(FALSE, <<>>, DocxFailed)
    ELSE Outcome(TRUE, r.value, NoError)

textOnParsed(r) ==
    IF r.threw THEN Outcome(FALSE, <<>>, TextFailed)
    ELSE IF Len(r.value) = 0 THEN Outcome(FALSE, <<>>, TextNoFeatures)
    ELSE Outcome(TRUE, r.value, NoError)

\* Mutation: setIsParsing(false) follows setFeatures only, not the failures.
FinishUploadNoFinally(o, op, met) ==
    /\ features' = (IF o.ok THEN o.features ELSE features)
    /\ parseError' = (IF o.ok THEN parseError ELSE o.error)
    /\ isParsing' = (IF o.ok THEN FALSE ELSE isParsing)
    /\ upload' = NoUpload
    /\ runAnalysis(features', techStack, isParsing', status, analysisReqs)
    /\ ev' = UploadEvent(op, met, upload.branch, NoFile, <<>>)
    /\ UNCHANGED <<techStack, analysis, chatSession, codeScaffold, viewMode, genReqs>>

\* The end of an upload: setFeatures or setParseError, then setIsParsing(false)
\* in the finally block; the render that follows runs the analysis effect.
FinishUpload(o, op, met) ==
    /\ features' = (IF o.ok THEN o.features ELSE features)
    /\ parseError' = (IF o.ok THEN parseError ELSE o.error)
    /\ isParsing' = FALSE
    /\ upload' = NoUpload
    /\ runAnalysis(features', techStack, FALSE, status, analysisReqs)
    /\ ev' = UploadEvent(op, met, upload.branch, NoFile, <<>>)
    /\ UNCHANGED <<techStack, analysis, chatSession, codeScaffold, viewMode, genReqs>>

\* Mutation: the scaffold of the previous upload is kept.
resetSessionKeepScaffold ==
    /\ features' = <<>>
    /\ analysis' = ""
    /\ chatSession' = Null
    /\ viewMode' = "chat"
    /\ UNCHANGED codeScaffold

\* Mutation: the features of the previous upload are kept.
resetSessionKeepFeatures ==
    /\ UNCHANGED features
    /\ analysis' = ""
    /\ chatSession' = Null
    /\ codeScaffold' = Null
    /\ viewMode' = "chat"

\* The resets at the head of handleFileUpload (App.tsx 70-75); setStatus(IDLE)
\* is the status handed to the effect below.
resetSession ==
    /\ features' = <<>>
    /\ analysis' = ""
    /\ chatSession' = Null
    /\ codeScaffold' = Null
    /\ viewMode' = "chat"

\* Mutation: the parse error of the previous upload is not cleared.
handleFileUploadKeepsError(file, text, syncThrow) ==
    /\ ~isParsing
    /\ UNCHANGED components
    /\ IF file = NoFile
       THEN /\ ev' = Event("handleFileUpload", FALSE, "nofile")
            /\ UNCHANGED <<appState, upload, analysisReqs, genReqs>>
       ELSE /\ resetSession
            /\ genReqs' = MarkStale(genReqs)
            /\ UNCHANGED techStack
            /\ IF syncThrow
               THEN /\ isParsing' = FALSE
                    /\ parseError' = UnexpectedFailed
                    /\ upload' = NoUpload
                    /\ ev' = Event("handleFileUpload", FALSE, "unexpected")
               ELSE /\ isParsing' = TRUE
                    /\ UNCHANGED parseError
                    /\ upload' = [pc |-> "reading", branch |-> Branch(file), text |-> text]
                    /\ ev' = UploadEvent("handleFileUpload", "reading", Branch(file), file, features)
            /\ runAnalysis(features', techStack, isParsing', IDLE, MarkStale(analysisReqs))

\* The file input is disabled while isParsing (App.tsx 264).
handleFileUpload(file, text, syncThrow) ==
    /\ ~isParsing
    /\ UNCHANGED components
    /\ IF file = NoFile
       THEN /\ ev' = Event("handleFileUpload", FALSE, "nofile")
            /\ UNCHANGED <<appState, upload, analysisReqs, genReqs>>
       ELSE /\ resetSession
            /\ genReqs' = MarkStale(genReqs)
            /\ UNCHANGED techStack
            /\ IF syncThrow
               THEN /\ isParsing' = FALSE
                    /\ parseError' = UnexpectedFailed
                    /\ upload' = NoUpload
                    /\ ev' = Event("handleFileUpload", FALSE, "unexpected")
               ELSE /\ isParsing' = TRUE
                    /\ parseError' = NoError
                    /\ upload' = [pc |-> "reading", branch |-> Branch(file), text |-> text]
                    /\ ev' = UploadEvent("handleFileUpload", "reading", Branch(file), file, features)
            /\ runAnalysis(features', techStack, isParsing', IDLE, MarkStale(analysisReqs))

\* Mutation: the read failure is reported with the message of a parse failure.
readerOnErrorAsParseFailure ==
    /\ upload.pc = "reading"
    /\ UNCHANGED components
    /\ FinishUpload(Outcome(FALSE, <<>>, TextFailed), "readerOnError", "error")

readerOnError ==
    /\ upload.pc = "reading"
    /\ UNCHANGED components
    /\ FinishUpload(Outcome(FALSE, <<>>, ReadFailed), "readerOnError", "error")

\* The upload once its reader delivered: the file and its text are consumed.
Delivered(pc) == [NoUpload EXCEPT !.pc = pc, !.branch = upload.branch]

\* reader.onload up to its first await.
readerOnLoad ==
    /\ upload.pc = "reading"
    /\ UNCHANGED components
    /\ IF upload.branch = "pdf"
       THEN /\ upload' = Delivered("parsing")
            /\ ev' = UploadEvent("readerOnLoad", "parsing", upload.branch, NoFile, <<>>)
            /\ UNCHANGED <<appState, analysisReqs, genReqs>>
       ELSE IF upload.branch = "docx"
       THEN /\ upload' = Delivered("extracting")
            /\ ev' = UploadEvent("readerOnLoad", "extracting", upload.branch, NoFile, <<>>)
            /\ UNCHANGED <<appState, analysisReqs, genReqs>>
       ELSE LET parsed == FeatureTitles(parseLegacyContent(upload.text))
            IN IF Len(parsed) = 0 /\ NonBlank(upload.text)
               THEN /\ upload' = Delivered("parsing")
                    /\ ev' = UploadEvent("readerOnLoad", "parsing", upload.branch, NoFile, <<>>)
                    /\ UNCHANGED <<appState, analysisReqs, genReqs>>
               ELSE FinishUpload(textOnParsed(Returned(parsed)), "readerOnLoad",
                                 IF Len(parsed) > 0 THEN "legacy" ELSE "blank")

\* mammoth.extractRawText settled: it threw, or returned blank or non-blank text.
extractDone(outcome) ==
    /\ upload.pc = "extracting"
    /\ UNCHANGED components
    /\ IF outcome = "text"
       THEN /\ upload' = Delivered("parsing")
            /\ ev' = UploadEvent("extractDone", "parsing", upload.branch, NoFile, <<>>)
            /\ UNCHANGED <<appState, analysisReqs, genReqs>>
       ELSE FinishUpload(Outcome(FALSE, <<>>, DocxFailed), "extractDone", outcome)

\* What the caller of parseDocumentWithGemini was answered with.
Answer(resp) ==
    IF resp.kind = "json" THEN (IF resp.value = <<>> THEN "none" ELSE "features") ELSE resp.kind

\* parseDocumentWithGemini settled.
parseResponse(resp) ==
    /\ upload.pc = "parsing"
    /\ UNCHANGED components
    /\ LET r == parseDocumentWithGemini(resp)
       IN FinishUpload(IF upload.branch = "pdf" THEN pdfOnParsed(r)
                       ELSE IF upload.branch = "docx" THEN docxOnParsed(r)
                       ELSE textOnParsed(r),
                       "parseResponse", Answer(resp))

(***************************************************************************)
(* The stack selector buttons (App.tsx 301-356)                            *)
(***************************************************************************)
setTechStack(field, value) ==
    /\ techStack' = [techStack EXCEPT ![field] = value]
    /\ runAnalysis(features, techStack', isParsing, status, analysisReqs)
    /\ ev' = Event("setTechStack", FALSE, status)
    /\ UNCHANGED <<features, analysis, chatSession, codeScaffold, isParsing,
                   parseError, viewMode, upload, genReqs, components>>

(***************************************************************************)
(* runAnalysis after its await (App.tsx 193-204)                           *)
(***************************************************************************)
createProjectChat(f, ts) == [features |-> f, stack |-> ts]

analysisResponse(req, resp, chatThrows) ==
    /\ BagIn(req, analysisReqs)
    /\ analysisReqs' = analysisReqs (-) SetToBag({req})
    /\ LET r == analyzeRequirementsFast(resp)
       IN IF r.threw
          THEN /\ status' = ERROR
               /\ ev' = Event("analysisResponse", req.stale, "throw")
               /\ UNCHANGED <<analysis, chatSession>>
          ELSE /\ analysis' = r.value
               /\ IF chatThrows
                  THEN /\ status' = ERROR
                       /\ ev' = Event("analysisResponse", req.stale, "chatThrow")
                       /\ UNCHANGED chatSession
                  ELSE /\ chatSession' = Some(createProjectChat(req.features, req.stack))
                       /\ status' = COMPLETE
                       /\ ev' = Event("analysisResponse", req.stale, "ok")
    /\ UNCHANGED <<features, techStack, codeScaffold, isParsing, parseError,
                   viewMode, upload, genReqs, components>>

(***************************************************************************)
(* handleGenerateCode (App.tsx 211-224)                                    *)
(***************************************************************************)
\* Mutation: a failed analysis also lets generation through.
handleGenerateCodeGuardLax(st) == st = COMPLETE \/ st = GENERATING_CODE \/ st = ERROR

handleGenerateCodeGuard(st) == st = COMPLETE \/ st = GENERATING_CODE

handleGenerateCode ==
    IF ~handleGenerateCodeGuard(status)
    THEN /\ ev' = Event("handleGenerateCode", FALSE, "return")
         /\ UNCHANGED <<appState, upload, analysisReqs, genReqs, components>>
    ELSE /\ BagCardinality(genReqs) < MaxGenInFlight
         /\ status' = GENERATING_CODE
         /\ genReqs' = genReqs (+) SetToBag({GenRequest})
         /\ ev' = Event("handleGenerateCode", FALSE, "request")
         /\ UNCHANGED <<features, techStack, analysis, chatSession, codeScaffold,
                        isParsing, parseError, viewMode, upload, analysisReqs, components>>

\* The button is rendered only while status is COMPLETE and there is no
\* scaffold (App.tsx 404-417).
clickGenerate ==
    /\ status = COMPLETE
    /\ codeScaffold = Null
    /\ handleGenerateCode

\* Mutation: the catch block reports the failure as ERROR.
genResponseError(req, resp) ==
    /\ BagIn(req, genReqs)
    /\ genReqs' = genReqs (-) SetToBag({req})
    /\ LET r == generateCodeScaffold(resp)
       IN IF r.threw
          THEN /\ status' = ERROR
               /\ UNCHANGED <<codeScaffold, viewMode>>
          ELSE /\ codeScaffold' = Some(r.value)
               /\ viewMode' = "demo"
               /\ status' = COMPLETE
    /\ ev' = Event("genResponse", req.stale, resp.kind)
    /\ UNCHANGED <<features, techStack, analysis, chatSession, isParsing,
                   parseError, upload, analysisReqs, components>>

\* Mutation: the catch block drops the scaffold stored before.
genResponseClears(req, resp) ==
    /\ BagIn(req, genReqs)
    /\ genReqs' = genReqs (-) SetToBag({req})
    /\ LET r == generateCodeScaffold(resp)
       IN IF r.threw
          THEN /\ status' = COMPLETE
               /\ codeScaffold' = Null
               /\ UNCHANGED viewMode
          ELSE /\ codeScaffold' = Some(r.value)
               /\ viewMode' = "demo"
               /\ status' = COMPLETE
    /\ ev' = Event("genResponse", req.stale, resp.kind)
    /\ UNCHANGED <<features, techStack, analysis, chatSession, isParsing,
                   parseError, upload, analysisReqs, components>>

\* Mutation: the catch block leaves the status as it is.
genResponseStuck(req, resp) ==
    /\ BagIn(req, genReqs)
    /\ genReqs' = genReqs (-) SetToBag({req})
    /\ LET r == generateCodeScaffold(resp)
       IN IF r.threw
          THEN UNCHANGED <<status, codeScaffold, viewMode>>
          ELSE /\ codeScaffold' = Some(r.value)
               /\ viewMode' = "demo"
               /\ status' = COMPLETE
    /\ ev' = Event("genResponse", req.stale, resp.kind)
    /\ UNCHANGED <<features, techStack, analysis, chatSession, isParsing,
                   parseError, upload, analysisReqs, components>>

\* handleGenerateCode after its await.
genResponse(req, resp) ==
    /\ BagIn(req, genReqs)
    /\ genReqs' = genReqs (-) SetToBag({req})
    /\ LET r == generateCodeScaffold(resp)
       IN IF r.threw
          THEN /\ status' = COMPLETE
               /\ UNCHANGED <<codeScaffold, viewMode>>
          ELSE /\ codeScaffold' = Some(r.value)
               /\ viewMode' = "demo"
               /\ status' = COMPLETE
    /\ ev' = Event("genResponse", req.stale, resp.kind)
    /\ UNCHANGED <<features, techStack, analysis, chatSession, isParsing,
                   parseError, upload, analysisReqs, components>>

(***************************************************************************)
(* The view switcher (App.tsx 430-466)                                     *)
(***************************************************************************)
setViewMode(m) ==
    /\ codeScaffold # Null
    /\ viewMode' = m
    /\ ev' = Event("setViewMode", FALSE, "")
    /\ UNCHANGED <<features, techStack, analysis, status, chatSession, codeScaffold,
                   isParsing, parseError, upload, analysisReqs, genReqs, components>>

(***************************************************************************)
(* Specifications                                                          *)
(***************************************************************************)
\* The content of a file matters on the plain-text branch only.
Contents(file) == IF file # NoFile /\ Branch(file) = "text" THEN Texts ELSE {<<>>}

Upload ==
    \E file \in Files \cup {NoFile}, syncThrow \in BOOLEAN :
        \E text \in Contents(file) : handleFileUpload(file, text, syncThrow)
ExtractDone == \E o \in {"throw", "blank", "text"} : extractDone(o)
ParseResponse == \E resp \in ParseResponses : parseResponse(resp)
SelectLanguage == \E v \in LANGUAGES : setTechStack("language", v)
SelectFrontend == \E v \in FRONTEND_FRAMEWORKS : setTechStack("frontendFramework", v)
SelectBackend == \E v \in BACKEND_FRAMEWORKS : setTechStack("backendFramework", v)
AnalysisResponse ==
    \E req \in BagToSet(analysisReqs), resp \in AnalysisResponses, chatThrows \in BOOLEAN :
        analysisResponse(req, resp, chatThrows)
GenResponse == \E req \in BagToSet(genReqs), resp \in GenResponses : genResponse(req, resp)
SwitchView == \E m \in ViewModes : setViewMode(m)

Next ==
    \/ AnalysisResponse
    \/ GenResponse
    \/ SelectLanguage
    \/ SelectFrontend
    \/ SelectBackend
    \/ clickGenerate
    \/ SwitchView
    \/ Upload
    \/ readerOnError
    \/ readerOnLoad
    \/ ExtractDone
    \/ ParseResponse

Spec == Init /\ [][Next]_vars

\* The handler called directly, whatever the page shows.
NextHandler ==
    \/ AnalysisResponse
    \/ GenResponse
    \/ SelectLanguage
    \/ SelectFrontend
    \/ SelectBackend
    \/ handleGenerateCode
    \/ SwitchView
    \/ Upload
    \/ readerOnError
    \/ readerOnLoad
    \/ ExtractDone
    \/ ParseResponse

SpecHandler == Init /\ [][NextHandler]_vars

(***************************************************************************)
(* parseLegacyContent on its own: every text of up to MaxDocLen tokens,    *)
(* and the documents of up to MaxParts parts taken from Parts.             *)
(***************************************************************************)
MaxDocLen == 5
MaxParts == 2

ParserTokens == {DELIM, FENCE, NL, TXT, TitleLogin}

Parts == Segments \cup
         {<<NL>>,
          <<NL, TXT, NL>>,
          <<NL, FENCE, NL, TitleSearch, NL, FENCE, NL>>,
          <<NL, FENCE, NL, TitleEmpty, NL, FENCE, NL, TXT>>,
          <<NL, FENCE, NL, TypeCore, NL, FENCE, NL, TitleLogin, NL>>}

Docs == UNION {[1..n -> ParserTokens] : n \in 0..MaxDocLen}
        \cup {join(ps) : ps \in UNION {[1..n -> Parts] : n \in 1..MaxParts}}

InitParser ==
    /\ InitApp
    /\ InitChat
    /\ InitViews
    /\ doc \in Docs
    /\ records = Null

parseText ==
    /\ records = Null
    /\ records' = Some(parseLegacyContent(doc))
    /\ UNCHANGED <<appState, upload, analysisReqs, genReqs, ev, doc,
                   messages, input, isLoading, turns, views>>

NextParser == parseText

SpecParser == InitParser /\ [][NextParser]_vars

(***************************************************************************)
(* ChatInterface (ChatInterface.tsx 10-52) under what App does to it: App  *)
(* renders it while there is no scaffold or the view is 'chat' (App.tsx    *)
(* 469-472) and hands it chatSession.  The writes of App to chatSession,   *)
(* codeScaffold and viewMode are taken one by one, whenever App can make   *)
(* them.                                                                   *)
(***************************************************************************)
MaxMessages == 4
MaxTurnsInFlight == 2

Inputs == {"", " ", "hi"}

\* input.trim()
trimInput(v) == IF v = " " THEN "" ELSE v

\* A response of chatSession.sendMessage: it throws, or returns a text.
ChatResponses == {Resp("throw", ""), Resp("text", ""), Resp("text", "Use a NestJS guard.")}

Mounted(scaffold, mode) == scaffold = Null \/ mode = "chat"

\* A call of sendMessage awaiting its response.  orphan and old are history
\* fields nothing reads but the account of setState on an unmounted
\* component: the component that sent the turn was unmounted since, the
\* session it was sent on was replaced since.
Turn == [orphan |-> FALSE, old |-> FALSE]

MarkTurns(bag, field) ==
    LET D == BagToSet(bag)
        T == {[t EXCEPT ![field] = TRUE] : t \in D}
        Count(u) == LET S == {t \in D : [t EXCEPT ![field] = TRUE] = u}
                        Sum[R \in SUBSET S] ==
                            IF R = {} THEN 0
                            ELSE LET t == CHOOSE t \in R : TRUE IN bag[t] + Sum[R \ {t}]
                    IN Sum[S]
    IN [u \in T |-> Count(u)]

\* What a render of App does to ChatInterface once App wrote chatSession,
\* codeScaffold or viewMode; newSession: chatSession changed identity.
renderChat(newSession) ==
    LET was == Mounted(codeScaffold, viewMode)
        is == Mounted(codeScaffold', viewMode')
        kept == IF newSession THEN MarkTurns(turns, "old") ELSE turns
    IN IF ~is
       THEN /\ messages' = <<>>
            /\ input' = ""
            /\ isLoading' = FALSE
            /\ turns' = (IF was THEN MarkTurns(kept, "orphan") ELSE kept)
       ELSE IF ~was
       THEN /\ messages' = (IF chatSession' # Null THEN <<Loaded>> ELSE <<Greeting>>)
            /\ input' = ""
            /\ isLoading' = FALSE
            /\ turns' = kept
       ELSE /\ messages' = (IF newSession /\ chatSession' # Null THEN <<Loaded>> ELSE messages)
            /\ UNCHANGED <<input, isLoading>>
            /\ turns' = kept

chatFrame == UNCHANGED <<features, techStack, analysis, status, isParsing, parseError,
                         upload, analysisReqs, genReqs, doc, records, views>>

\* setChatSession(chat) of runAnalysis (App.tsx 197-198).
setChatSession(f, ts) ==
    /\ chatSession' = Some(createProjectChat(f, ts))
    /\ UNCHANGED <<codeScaffold, viewMode>>
    /\ renderChat(TRUE)
    /\ ev' = Event("setChatSession", FALSE, "")
    /\ chatFrame

\* The resets of handleFileUpload (App.tsx 73-75).
resetChatSession ==
    /\ chatSession' = Null
    /\ codeScaffold' = Null
    /\ viewMode' = "chat"
    /\ renderChat(chatSession # Null)
    /\ ev' = Event("resetChatSession", FALSE, "")
    /\ chatFrame

\* setCodeScaffold(scaffold); setViewMode('demo') of handleGenerateCode
\* (App.tsx 218-219).
setCodeScaffold ==
    /\ codeScaffold' = Some(GeneratedScaffold)
    /\ viewMode' = "demo"
    /\ UNCHANGED chatSession
    /\ renderChat(FALSE)
    /\ ev' = Event("setCodeScaffold", FALSE, "")
    /\ chatFrame

\* The view switcher (App.tsx 430-466), with ChatInterface in the picture.
switchView(m) ==
    /\ codeScaffold # Null
    /\ viewMode' = m
    /\ UNCHANGED <<chatSession, codeScaffold>>
    /\ renderChat(FALSE)
    /\ ev' = Event("switchView", FALSE, "")
    /\ chatFrame

\* The input box: rendered with a session only, disabled while isLoading
\* (ChatInterface.tsx 61-68, 118-125).
CanType == Mounted(codeScaffold, viewMode) /\ chatSession # Null /\ ~isLoading

setInput(v) ==
    /\ CanType
    /\ input' = v
    /\ ev' = Event("setInput", FALSE, "")
    /\ UNCHANGED <<appState, upload, analysisReqs, genReqs, doc, records, views,
                   messages, isLoading, turns>>

\* handleSend up to its await (ChatInterface.tsx 33-41).
handleSend ==
    IF trimInput(input) = "" \/ chatSession = Null
    THEN /\ ev' = Event("handleSend", FALSE, "return")
         /\ UNCHANGED <<appState, upload, analysisReqs, genReqs, components>>
    ELSE /\ Len(messages) < MaxMessages
         /\ BagCardinality(turns) < MaxTurnsInFlight
         /\ messages' = Append(messages, Message("user", input))
         /\ input' = ""
         /\ isLoading' = TRUE
         /\ turns' = turns (+) SetToBag({Turn})
         /\ ev' = Event("handleSend", FALSE, "request")
         /\ UNCHANGED <<appState, upload, analysisReqs, genReqs, doc, records, views>>

\* Enter in the input box, or the send button (ChatInterface.tsx 54-59, 126-129).
pressEnter ==
    /\ CanType
    /\ handleSend

\* Mutation: isLoading is cleared on success only.
sendMessageResponseNoFinally(turn, resp) ==
    /\ BagIn(turn, turns)
    /\ turns' = turns (-) SetToBag({turn})
    /\ IF turn.orphan
       THEN UNCHANGED <<messages, isLoading>>
       ELSE IF resp.kind = "throw"
       THEN /\ messages' = Append(messages, Message("model", ChatFailed))
            /\ UNCHANGED isLoading
       ELSE /\ messages' = Append(messages, Message("model", IF resp.value # "" THEN resp.value ELSE NoReply))
            /\ isLoading' = FALSE
    /\ ev' = Event("sendMessageResponse", turn.orphan, resp.kind)
    /\ UNCHANGED <<appState, upload, analysisReqs, genReqs, doc, records, views, input>>

\* handleSend after its await (ChatInterface.tsx 42-51).  The state of a
\* component that was unmounted is not written.
sendMessageResponse(turn, resp) ==
    /\ BagIn(turn, turns)
    /\ turns' = turns (-) SetToBag({turn})
    /\ IF turn.orphan
       THEN UNCHANGED <<messages, isLoading>>
       ELSE /\ messages' = Append(messages, Message("model",
                               IF resp.kind = "throw" THEN ChatFailed
                               ELSE IF resp.value # "" THEN resp.value ELSE NoReply))
            /\ isLoading' = FALSE
    /\ ev' = Event("sendMessageResponse", turn.orphan, resp.kind)
    /\ UNCHANGED <<appState, upload, analysisReqs, genReqs, doc, records, views, input>>

SetChatSession == \E f \in {<<"Login">>} : setChatSession(f, [language |-> "Go", frontendFramework |-> "React", backendFramework |-> "NestJS"])
SwitchChatView == \E m \in ViewModes : switchView(m)
SetInput == \E v \in Inputs : setInput(v)
SendMessageResponse == \E turn \in BagToSet(turns), resp \in ChatResponses : sendMessageResponse(turn, resp)

NextChat ==
    \/ SetChatSession
    \/ resetChatSession
    \/ setCodeScaffold
    \/ SwitchChatView
    \/ SetInput
    \/ pressEnter
    \/ SendMessageResponse

SpecChat == Init /\ [][NextChat]_vars

(***************************************************************************)
(* CodePreview (CodePreview.tsx 30-62): allFiles and fileTree of a render. *)
(* A path is the sequence of its parts between slashes.                    *)
(***************************************************************************)
MaxFiles == 3

ProjectFile(path, content, language) == [path |-> path, content |-> content, language |-> language]

Files_ == {ProjectFile(<<"backend", "main.ts">>, "bootstrap()", "typescript"),
           ProjectFile(<<"backend", "main.ts">>, "listen(3000)", "typescript"),
           ProjectFile(<<"README.md">>, "# Service", "markdown"),
           ProjectFile(<<"readme.md">>, "# service", "markdown"),
           ProjectFile(<<"docs", "README.md">>, "# Docs", "markdown"),
           ProjectFile(<<"constructor", "index.ts">>, "export {}", "typescript")}

\* String.prototype.toLowerCase, part by part.
toLowerCase(path) ==
    [i \in 1..Len(path) |-> IF path[i] = "README.md" THEN "readme.md" ELSE path[i]]

\* String.prototype.localeCompare on the paths above, by their collation order.
localeCompare(a, b) ==
    LET Collation == <<<<"backend", "main.ts">>, <<"constructor", "index.ts">>,
                       <<"docs", "README.md">>, <<"readme.md">>, <<"README.md">>>>
    IN (CHOOSE i \in 1..Len(Collation) : Collation[i] = a)
       - (CHOOSE i \in 1..Len(Collation) : Collation[i] = b)

\* Array.prototype.sort with the comparator of CodePreview.tsx 41: stable.
RECURSIVE insertSorted(_, _)
insertSorted(f, sorted) ==
    IF sorted = <<>> THEN <<f>>
    ELSE IF localeCompare(f.path, Head(sorted).path) < 0 THEN <<f>> \o sorted
    ELSE <<Head(sorted)>> \o insertSorted(f, Tail(sorted))

RECURSIVE sort(_)
sort(files) ==
    IF files = <<>> THEN <<>>
    ELSE insertSorted(files[Len(files)], sort(SubSeq(files, 1, Len(files) - 1)))

allFiles(sc) ==
    LET found == \E i \in 1..Len(sc.files) : toLowerCase(sc.files[i].path) = <<"readme.md">>
        files == IF found THEN sc.files
                 ELSE <<ProjectFile(<<"README.md">>, sc.readme, "markdown")>> \o sc.files
    IN sort(files)

\* The names every object literal inherits from Object.prototype: tree[root]
\* is not undefined for them, and is not an array.
ObjectPrototype == {"constructor", "hasOwnProperty", "isPrototypeOf", "propertyIsEnumerable",
                    "toLocaleString", "toString", "valueOf", "__proto__"}

\* allFiles.forEach of CodePreview.tsx 56-60 from the tree built so far;
\* tree[root].push throws a TypeError when tree[root] is inherited.
RECURSIVE groupFrom(_, _)
groupFrom(files, tree) ==
    IF files = <<>> THEN [threw |-> FALSE, tree |-> tree]
    ELSE LET file == Head(files)
             root == file.path[1]
         IN IF root \in DOMAIN tree
            THEN groupFrom(Tail(files), [tree EXCEPT ![root] = Append(tree[root], file)])
            ELSE IF root \in ObjectPrototype
            THEN [threw |-> TRUE, tree |-> tree]
            ELSE groupFrom(Tail(files),
                           [r \in DOMAIN tree \cup {root} |-> IF r = root THEN <<file>> ELSE tree[r]])

fileTree(files) == groupFrom(files, [r \in {} |-> <<>>])

InitPreview ==
    /\ InitApp
    /\ InitDoc
    /\ InitChat
    /\ scaffoldProp \in {[files |-> fs, readme |-> "# Run", demoHtml |-> ""] :
                            fs \in UNION {[1..n -> Files_] : n \in 0..MaxFiles}}
    /\ explorer = Null
    /\ html = <<>>
    /\ srcDoc = Null
    /\ listening = FALSE
    /\ domEvent = NoEvent

\* A render of CodePreview: both useMemo run.
renderPreview ==
    /\ explorer = Null
    /\ explorer' = Some(LET t == fileTree(allFiles(scaffoldProp))
                        IN [threw |-> t.threw, allFiles |-> allFiles(scaffoldProp), fileTree |-> t.tree])
    /\ UNCHANGED <<appState, upload, analysisReqs, genReqs, ev, doc, records,
                   messages, input, isLoading, turns, scaffoldProp, html, srcDoc, listening, domEvent>>

SpecPreview == InitPreview /\ [][renderPreview]_vars

(***************************************************************************)
(* LiveDemo (LiveDemo.tsx 8-92): the demo HTML is a sequence of pieces of  *)
(* text, an href a sequence of pieces too.                                 *)
(***************************************************************************)
MaxHtmlLen == 3

safetyScript == "<script>safety</script>"

HtmlPieces == {"<head>", "</head>", "</HEAD>", "<a>", "<form>"}

\* String.prototype.includes: case-sensitive.
includes(text, piece) == \E i \in 1..Len(text) : text[i] = piece

\* String.prototype.replace with a string pattern: the first occurrence only.
replace(text, piece, by) ==
    LET i == CHOOSE k \in 1..Len(text) :
                 text[k] = piece /\ \A j \in 1..(k - 1) : text[j] # piece
    IN SubSeq(text, 1, i - 1) \o by \o SubSeq(text, i + 1, Len(text))

safeHtml(h) ==
    IF includes(h, "</head>")
    THEN replace(h, "</head>", <<safetyScript, "</head>">>)
    ELSE <<safetyScript>> \o h

\* The element a click lands on: outside any link, or in a link with the
\* value getAttribute('href') returns (Null without the attribute).
Targets ==
    {[link |-> FALSE, href |-> Null]}
    \cup {[link |-> TRUE, href |-> href] :
             href \in {Null, Some(<<>>), Some(<<"#">>), Some(<<"#", "top">>),
                       Some(<<"javascript:", "void(0)">>), Some(<<"https:", "//example.com">>),
                       Some(<<"/", "logout">>)}}

\* The click listener of LiveDemo.tsx 16-28: TRUE when it calls preventDefault.
onClick(target) ==
    IF target.link
    THEN LET href == target.href
         IN IF href = Null \/ href[1] = <<>> \/ href[1] = <<"#">> \/ href[1][1] = "javascript:"
            THEN FALSE
            ELSE TRUE
    ELSE FALSE

InitDemo ==
    /\ InitApp
    /\ InitDoc
    /\ InitChat
    /\ scaffoldProp = NoScaffold
    /\ explorer = Null
    /\ html \in UNION {[1..n -> HtmlPieces] : n \in 0..MaxHtmlLen}
    /\ srcDoc = Null
    /\ listening = FALSE
    /\ domEvent = NoEvent

demoFrame == <<appState, upload, analysisReqs, genReqs, ev, doc, records,
               messages, input, isLoading, turns, scaffoldProp, explorer, html>>

\* A render of LiveDemo: the iframe loads safeHtml; the script, once run,
\* has only registered the DOMContentLoaded callback.
renderDemo ==
    /\ srcDoc = Null
    /\ srcDoc' = Some(safeHtml(html))
    /\ UNCHANGED <<listening, domEvent, demoFrame>>

\* The callback of LiveDemo.tsx 14-55 registers both capture listeners.
DOMContentLoaded ==
    /\ srcDoc # Null
    /\ includes(srcDoc[1], safetyScript)
    /\ ~listening
    /\ listening' = TRUE
    /\ UNCHANGED <<srcDoc, domEvent, demoFrame>>

click(target) ==
    /\ srcDoc # Null
    /\ includes(srcDoc[1], "<a>") \/ ~target.link
    /\ domEvent' = [type |-> "click", target |-> target,
                    prevented |-> listening /\ onClick(target)]
    /\ UNCHANGED <<srcDoc, listening, demoFrame>>

\* The submit listener of LiveDemo.tsx 31-54 always calls preventDefault.
submit ==
    /\ srcDoc # Null
    /\ includes(srcDoc[1], "<form>")
    /\ domEvent' = [type |-> "submit", target |-> [link |-> FALSE, href |-> Null],
                    prevented |-> listening]
    /\ UNCHANGED <<srcDoc, listening, demoFrame>>

NextDemo ==
    \/ renderDemo
    \/ DOMContentLoaded
    \/ \E target \in Targets : click(target)
    \/ submit

SpecDemo == InitDemo /\ [][NextDemo]_vars

TypeOK ==
    /\ \A i \in 1..Len(features) : features[i] \in Titles
    /\ status \in AnalysisStatus
    /\ isParsing \in BOOLEAN
    /\ viewMode \in ViewModes
    /\ BagCardinality(analysisReqs) <= MaxAnalysisInFlight
    /\ BagCardinality(genReqs) <= MaxGenInFlight

(***************************************************************************)
(* Properties                                                              *)
(***************************************************************************)
InFlight(bag) == BagCardinality(bag)

\* C1: an analysis request is issued only when, in the render whose effect
\* issues it, the features are non-empty, the three stack fields are
\* non-empty and no upload is being parsed; the request carries those values.
C1_AnalysisOnlyWhenReady ==
    [][InFlight(analysisReqs') > InFlight(analysisReqs) =>
          /\ Len(features') > 0
          /\ techStack'.language # ""
          /\ techStack'.frontendFramework # ""
          /\ techStack'.backendFramework # ""
          /\ ~isParsing'
          /\ BagIn([features |-> features', stack |-> techStack', stale |-> FALSE],
                   analysisReqs')]_vars

C1_Witness ==
    /\ ev.op = "setTechStack"
    /\ status = ANALYZING
    /\ InFlight(analysisReqs) = 1

\* C2 as stated: every change of status is idle->analyzing,
\* analyzing->complete, analyzing->error, complete->generating_code,
\* generating_code->complete, or any->idle on a new upload.
C2_StatedTransitions ==
    [][status' # status =>
          \/ <<status, status'>> \in {<<IDLE, ANALYZING>>, <<ANALYZING, COMPLETE>>,
                                     <<ANALYZING, ERROR>>, <<COMPLETE, GENERATING_CODE>>,
                                     <<GENERATING_CODE, COMPLETE>>}
          \/ status' = IDLE /\ ev'.op = "handleFileUpload"]_vars

\* C2 amended: the status becomes idle only by a new upload, analyzing only
\* by an analysis run starting (stack selection or finished upload, from any
\* status), complete or error by an analysis request settling (in any
\* status), generating_code only from complete by a generation request, and
\* complete by a generation request settling (in any status).
C2_Transitions ==
    [][status' # status =>
          \/ status' = IDLE /\ ev'.op = "handleFileUpload"
          \/ /\ status' = ANALYZING
             /\ ev'.op \in {"setTechStack", "readerOnLoad", "parseResponse"}
             /\ InFlight(analysisReqs') = InFlight(analysisReqs) + 1
          \/ status' \in {COMPLETE, ERROR} /\ ev'.op = "analysisResponse"
          \/ /\ status' = GENERATING_CODE
             /\ status = COMPLETE
             /\ ev'.op = "handleGenerateCode"
          \/ status' = COMPLETE /\ ev'.op = "genResponse"]_vars

C2_Witness ==
    /\ ev.op = "setTechStack"
    /\ status = ANALYZING
    /\ chatSession # <<>>
    /\ InFlight(analysisReqs) = 1

\* C3: a new upload, from whatever status, leaves the features empty, the
\* analysis text empty, no chat session, no scaffold and the status idle.
C3_UploadResets ==
    (ev.op = "handleFileUpload" /\ ev.outcome # "nofile") =>
        /\ features = <<>>
        /\ analysis = ""
        /\ chatSession = <<>>
        /\ codeScaffold = <<>>
        /\ status = IDLE

C3_Witness ==
    /\ ev.op = "handleFileUpload"
    /\ ev.outcome = "reading"
    /\ status = IDLE
    /\ InFlight(genReqs) > 0
    /\ InFlight(analysisReqs) > 0

\* C4 as stated: the result of an analysis request that was in flight when
\* a new upload started changes neither the analysis text, nor the chat
\* session, nor the status.
C4_StaleAnalysisDiscarded ==
    [][(ev'.op = "analysisResponse" /\ ev'.stale) =>
          UNCHANGED <<analysis, chatSession, status>>]_vars

\* C5 as stated: the result of a generation request that was in flight when
\* a new upload started neither stores a scaffold nor makes the status
\* complete.
C5_StaleScaffoldDiscarded ==
    [][(ev'.op = "genResponse" /\ ev'.stale) =>
          /\ codeScaffold' = codeScaffold
          /\ (status' = COMPLETE => status = COMPLETE)]_vars

\* C6 as stated: at most one scaffold-generation request is in flight.
C6_SingleGeneration == InFlight(genReqs) <= 1

\* C7: handleGenerateCode called in idle, analyzing or error issues no
\* request and leaves status, scaffold and view mode as they were.
C7_GenerateGuarded ==
    [][(ev'.op = "handleGenerateCode" /\ status \in {IDLE, ANALYZING, ERROR}) =>
          UNCHANGED <<status, codeScaffold, viewMode, genReqs>>]_vars

C7_Witness ==
    /\ ev.op = "handleGenerateCode"
    /\ ev.outcome = "return"
    /\ status = ANALYZING
    /\ InFlight(genReqs) = 0

\* C8: a generation run that resumes after its await sets the status to
\* complete, whether the gateway returned or threw; when it threw, the
\* analysis text, features, chat session and stored scaffold are unchanged.
C8_GenerationEndsComplete ==
    [][ev'.op = "genResponse" =>
          /\ status' = COMPLETE
          /\ (ev'.outcome \in {"throw", "empty"} =>
                 UNCHANGED <<analysis, features, chatSession, codeScaffold>>)]_vars

C8_Witness ==
    /\ ev.op = "genResponse"
    /\ ev.outcome = "throw"
    /\ codeScaffold # <<>>
    /\ status = COMPLETE

\* C9: a non-empty response that is not JSON makes the gateway return (not
\* throw) a scaffold whose readme is an error description; the pipeline
\* stores it and the status is complete.
C9_ParseFailurePlaceholder ==
    (ev.op = "genResponse" /\ ev.outcome = "garbage") =>
        /\ codeScaffold # <<>>
        /\ codeScaffold[1].readme = "Error parsing generation result."
        /\ codeScaffold[1].files = <<>>
        /\ status = COMPLETE

C9_Witness ==
    /\ ev.op = "genResponse"
    /\ ev.outcome = "garbage"
    /\ viewMode = "demo"
    /\ status = COMPLETE

\* C10 as stated: every generation failure (transport failure, empty
\* response, parse failure) stores a placeholder scaffold carrying error
\* text, with the status complete.
C10_EveryFailurePlaceholder ==
    (ev.op = "genResponse" /\ ev.outcome \in {"throw", "empty", "garbage"}) =>
        /\ codeScaffold # <<>>
        /\ codeScaffold[1].readme = "Error parsing generation result."
        /\ status = COMPLETE

\* C10 amended: a parse failure stores the placeholder scaffold; a transport
\* failure or an empty response stores nothing and leaves the scaffold as it
\* was; in all three cases the status is complete.
C10_FailureOutcomes ==
    [][(ev'.op = "genResponse" /\ ev'.outcome \in {"throw", "empty", "garbage"}) =>
          /\ status' = COMPLETE
          /\ (ev'.outcome = "garbage" =>
                 /\ codeScaffold' # <<>>
                 /\ codeScaffold'[1].readme = "Error parsing generation result.")
          /\ (ev'.outcome \in {"throw", "empty"} => codeScaffold' = codeScaffold)]_vars

C10_Witness ==
    /\ ev.op = "genResponse"
    /\ ev.outcome = "empty"
    /\ codeScaffold = <<>>
    /\ status = COMPLETE

\* C11: an analysis run that calls the analysis gateway makes the status
\* analyzing; the chat session is created only by a run whose gateway call
\* succeeded; when both succeed the status becomes complete with a non-empty
\* analysis text and a chat session; when either throws the status becomes
\* error and the chat session stored is the one stored before.
C11_AnalysisRun ==
    [][/\ (InFlight(analysisReqs') > InFlight(analysisReqs) => status' = ANALYZING)
       /\ ((chatSession' # chatSession /\ chatSession' # Null) =>
              (ev'.op = "analysisResponse" /\ ev'.outcome = "ok"))
       /\ (ev'.op = "analysisResponse" =>
              /\ (ev'.outcome = "ok" =>
                     status' = COMPLETE /\ analysis' # "" /\ chatSession' # Null)
              /\ (ev'.outcome \in {"throw", "chatThrow"} =>
                     status' = ERROR /\ chatSession' = chatSession))]_vars

C11_Witness ==
    /\ ev.op = "analysisResponse"
    /\ ev.outcome = "ok"
    /\ status = COMPLETE
    /\ analysis = "No analysis generated."
    /\ chatSession # Null

\* C12: a failed analysis request changes neither the features nor the stack
\* selection, and a stack selection made while the status is error, with
\* features present and no upload being parsed, starts a new analysis run:
\* the status becomes analyzing and one more request is in flight.
C12_RetryAfterError ==
    [][/\ ((ev'.op = "analysisResponse" /\ status' = ERROR) =>
              (features' = features /\ techStack' = techStack))
       /\ ((ev'.op = "setTechStack" /\ status = ERROR /\ Len(features) > 0 /\ ~isParsing) =>
              /\ status' = ANALYZING
              /\ InFlight(analysisReqs') = InFlight(analysisReqs) + 1)]_vars

C12_Witness ==
    /\ ev.op = "setTechStack"
    /\ ev.outcome = ERROR
    /\ status = ANALYZING
    /\ Len(features) > 0
    /\ InFlight(analysisReqs) = 1

(***************************************************************************)
(* The segments of a document and their front matter, by position          *)
(***************************************************************************)
DelimsBefore(d, p) == Cardinality({q \in 1..(p - 1) : d[q] = DELIM})

NumSegments(d) == DelimsBefore(d, Len(d) + 1) + 1

\* The k-th segment: the tokens with k - 1 delimiters before them.
Segment(d, k) ==
    LET P == {p \in 1..Len(d) : d[p] # DELIM /\ DelimsBefore(d, p) = k - 1}
    IN IF P = {} THEN <<>>
       ELSE SubSeq(d, CHOOSE p \in P : \A q \in P : p <= q, CHOOSE p \in P : \A q \in P : q <= p)

Blank(seg) == \A p \in 1..Len(seg) : IsSpace(seg[p])

\* Tokens i..j+1 are three hyphens, a newline, anything, a newline, three hyphens.
Block(seg, i, j) ==
    /\ i >= 1 /\ i + 2 <= j /\ j + 1 <= Len(seg)
    /\ seg[i] = FENCE /\ seg[i + 1] = NL
    /\ seg[j] = NL /\ seg[j + 1] = FENCE

Blocks(seg) == {b \in (1..Len(seg)) \X (1..Len(seg)) : Block(seg, b[1], b[2])}

\* The front-matter block of a segment: the first block, closed as early as can be.
FrontMatter(seg) ==
    CHOOSE b \in Blocks(seg) :
        \A c \in Blocks(seg) : b[1] < c[1] \/ (b[1] = c[1] /\ b[2] <= c[2])

\* The positions of the quoted titles in the front matter of a segment.
QuotedTitles(seg) ==
    IF Blocks(seg) = {} THEN {}
    ELSE {p \in (FrontMatter(seg)[1] + 2)..(FrontMatter(seg)[2] - 1) : Capture(seg[p], "title") # ""}

Titled(seg) == ~Blank(seg) /\ QuotedTitles(seg) # {}

TitleIn(seg) == Capture(seg[CHOOSE p \in QuotedTitles(seg) : \A q \in QuotedTitles(seg) : p <= q], "title")

TitledSegments(d) == {k \in 1..NumSegments(d) : Titled(Segment(d, k))}

\* C13: parseLegacyContent returns exactly one record per segment that has a
\* front-matter block with a quoted title in it, in the order of the segments
\* in the document, each record carrying the title and the text of its
\* segment; blank segments, segments without front matter and segments whose
\* front matter has no title give no record; the empty document gives none.
C13_OneRecordPerTitledSegment ==
    records # Null =>
        LET rs == records[1]
            K == TitledSegments(doc)
        IN /\ Len(rs) = Cardinality(K)
           /\ \A k \in K :
                  LET n == Cardinality({h \in K : h <= k})
                  IN rs[n].title = TitleIn(Segment(doc, k)) /\ rs[n].raw = Segment(doc, k)
           /\ (doc = <<>> => rs = <<>>)

C13_Witness ==
    /\ records # Null
    /\ Len(records[1]) = 2
    /\ records[1][1].title = "Search"
    /\ records[1][2].title = "Login"
    /\ NumSegments(doc) = 3

\* C14: in a plain-text upload the extraction gateway is called by
\* reader.onload exactly when the legacy parser found no record and the text
\* is not blank, by no other step of the upload, and the upload ends when
\* that call settles: once in that case, never otherwise.
C14_GatewayOnLegacyMiss ==
    [][/\ ((ev'.op = "readerOnLoad" /\ upload.branch = "text") =>
              ((upload'.pc = "parsing") <=>
                  (Len(parseLegacyContent(upload.text)) = 0 /\ trim(upload.text) # <<>>)))
       /\ ((upload'.branch = "text" /\ upload'.pc = "parsing" /\ upload.pc # "parsing") =>
              ev'.op = "readerOnLoad")
       /\ ((upload.branch = "text" /\ upload.pc = "parsing" /\ upload' # upload) =>
              upload'.pc # "parsing")]_vars

C14_Witness ==
    /\ ev.op = "readerOnLoad"
    /\ ev.branch = "text"
    /\ upload.pc = "parsing"

\* C15: when the text extracted from a Word document is blank, the
\* extraction gateway is not called, the features stay empty, no analysis
\* starts, and the message shown differs from the one shown when the
\* extraction of a Word document fails in another way.
C15_BlankDocxDistinctMessage ==
    [][(ev'.op = "extractDone" /\ ev'.outcome = "blank") =>
          /\ upload'.pc = "none"
          /\ features' = <<>>
          /\ status' = status
          /\ analysisReqs' = analysisReqs
          /\ parseError' # NoError
          /\ parseError' # docxOnParsed(Threw).error]_vars

\* C16: in the PDF and in the Word flow, an upload whose extraction gateway
\* call returned no feature ends with a parse error.
C16_ZeroLengthIsFailure ==
    [][(ev'.op = "parseResponse" /\ ev'.branch \in {"pdf", "docx"}
        /\ ev'.outcome \in {"none", "empty"}) =>
          parseError' # NoError]_vars

\* C17: when the extraction gateway throws, or returns no feature for a PDF
\* or a plain-text file, a parse error is set, the stack selection and the
\* status are unchanged, the features are empty and no analysis request is
\* issued.
C17_ExtractionFailure ==
    [][(ev'.op = "parseResponse"
        /\ (ev'.outcome \in {"throw", "garbage"}
            \/ (ev'.outcome \in {"none", "empty"} /\ ev'.branch \in {"pdf", "text"}))) =>
          /\ parseError' # NoError
          /\ techStack' = techStack
          /\ features' = <<>>
          /\ status' = status
          /\ analysisReqs' = analysisReqs]_vars

C17_Witness ==
    /\ ev.op = "parseResponse"
    /\ ev.outcome = "none"
    /\ ev.branch = "pdf"
    /\ parseError = PdfFailed
    /\ StackComplete(techStack)
    /\ features = <<>>

\* C18 as stated: when the reader fails right after the upload started, the
\* error is reported and the features are those of the session that existed
\* before the upload.
C18_PriorSessionUntouched ==
    [][(ev.op = "handleFileUpload" /\ ev.outcome = "reading" /\ ev'.op = "readerOnError") =>
          (parseError' # NoError /\ features' = ev.prior)]_vars

\* C18 amended: reader.onerror reports "Error reading file.", ends the
\* parsing and changes nothing else; the session that existed before the
\* upload was discarded when the upload started, so the features are empty.
C18_ReaderErrorOnlyReports ==
    [][ev'.op = "readerOnError" =>
          /\ parseError' = ReadFailed
          /\ ~isParsing'
          /\ features' = <<>>
          /\ UNCHANGED <<features, techStack, analysis, status, chatSession,
                         codeScaffold, viewMode>>]_vars

C18_Witness ==
    /\ ev.op = "readerOnError"
    /\ parseError = ReadFailed
    /\ features = <<>>
    /\ \E r \in BagToSet(analysisReqs) : r.stale

\* C19: an upload takes one of the three branches, a file whose media type
\* is the Word type takes the Word branch and a file whose media type is the
\* PDF type takes the PDF branch, whatever the extension of its name.
C19_MediaTypeFirst ==
    (ev.op = "handleFileUpload" /\ ev.outcome = "reading") =>
        /\ ev.branch \in {"pdf", "docx", "text"}
        /\ (ev.file.type = DocxMime => ev.branch = "docx")
        /\ (ev.file.type = PdfMime => ev.branch = "pdf")

\* The turn a step settles.
Settled == CHOOSE t \in BagToSet(turns) : turns' = turns (-) SetToBag({t})

C21_AppendOnly ==
    [][/\ ((ev'.op = "setChatSession" /\ Mounted(codeScaffold', viewMode')) =>
              (Len(messages') = 1 /\ messages'[1].role = "model"))
       /\ ((ev'.op # "setChatSession" /\ chatSession # Null) =>
              \/ messages' = messages
              \/ /\ Len(messages') = Len(messages) + 1
                 /\ SubSeq(messages', 1, Len(messages)) = messages)]_vars

\* C22: the file list of a rendered scaffold holds every file of the scaffold
\* with its path, content and language, the virtual README.md with the
\* scaffold's readme exactly when no file's path is readme.md in any case,
\* and nothing else; every listed file is in exactly one root group of the
\* file tree.
C22_FileList ==
    explorer # Null =>
        LET e == explorer[1]
            sc == scaffoldProp
            Occurrences(f, files) == Cardinality({i \in 1..Len(files) : files[i] = f})
            want == IF \E i \in 1..Len(sc.files) :
                          sc.files[i].path \in {<<"README.md">>, <<"readme.md">>}
                    THEN sc.files
                    ELSE Append(sc.files, ProjectFile(<<"README.md">>, sc.readme, "markdown"))
            all == {want[i] : i \in 1..Len(want)} \cup {e.allFiles[i] : i \in 1..Len(e.allFiles)}
        IN /\ \A f \in all : Occurrences(f, e.allFiles) = Occurrences(f, want)
           /\ ~e.threw
           /\ \A f \in all :
                  /\ Cardinality({r \in DOMAIN e.fileTree : Occurrences(f, e.fileTree[r]) > 0}) = 1
                  /\ \A r \in DOMAIN e.fileTree :
                         Occurrences(f, e.fileTree[r]) \in {0, Occurrences(f, e.allFiles)}

\* C23: in the embedded demo every form submission is prevented, every
\* click on a link is prevented unless the link has no href, href '#' or a
\* javascript: href, and the demo document holds the interception script
\* exactly once, before the first </head> when there is one and at the very
\* start otherwise.
C23_DemoInert ==
    LET Harmless(target) ==
            \/ target.href = Null
            \/ target.href = Some(<<"#">>)
            \/ target.href # Some(<<>>) /\ target.href[1][1] = "javascript:"
        Injections(text) == Cardinality({i \in 1..Len(text) : text[i] = safetyScript})
    IN /\ domEvent.type = "submit" => domEvent.prevented
       /\ (domEvent.type = "click" /\ domEvent.target.link /\ ~Harmless(domEvent.target)) =>
              domEvent.prevented
       /\ srcDoc # Null =>
              /\ Injections(srcDoc[1]) = 1
              /\ \E i \in 1..Len(srcDoc[1]) :
                     /\ srcDoc[1][i] = safetyScript
                     /\ SubSeq(srcDoc[1], 1, i - 1) \o SubSeq(srcDoc[1], i + 1, Len(srcDoc[1])) = html
                     /\ \A j \in 1..(i - 1) : html[j] # "</head>"
                     /\ (\E j \in 1..Len(html) : html[j] = "</head>") => html[i] = "</head>"
                     /\ (\A j \in 1..Len(html) : html[j] # "</head>") => i = 1

\* C24: the features are only written by an upload, as a whole: emptied when
\* an upload starts, and set to the complete parsed sequence when its
\* extraction succeeds (the legacy parser's records, or the gateway's list);
\* selecting a stack, analysis responses, generation and view switches leave
\* them alone.
C24_FeaturesWrittenByUploads ==
    [][/\ (ev'.op = "handleFileUpload" /\ ev'.outcome # "nofile") => features' = <<>>
       /\ features' # features =>
              \/ ev'.op = "handleFileUpload" /\ features' = <<>>
              \/ /\ ev'.op = "readerOnLoad"
                 /\ ev'.outcome = "legacy"
                 /\ features' = FeatureTitles(parseLegacyContent(upload.text))
              \/ /\ ev'.op = "parseResponse"
                 /\ ev'.outcome = "features"
                 /\ \E resp \in ParseResponses : resp.kind = "json" /\ features' = resp.value
       /\ ev'.op \in {"setTechStack", "analysisResponse", "handleGenerateCode",
                      "genResponse", "setViewMode"} => features' = features]_vars

\* A second upload has started over the features of a first one.
C24_Witness ==
    /\ ev.op = "handleFileUpload"
    /\ ev.outcome = "reading"
    /\ Len(ev.prior) > 0
    /\ features = <<>>

\* C25: whenever the status is complete, the analysis text is non-empty, a
\* chat session exists, the features are non-empty, and the chat session
\* (created with the analysis text) was made from the features and the stack
\* stored now.
C25_CompleteIsCurrent ==
    status = COMPLETE =>
        /\ analysis # ""
        /\ chatSession # Null
        /\ Len(features) > 0
        /\ chatSession[1].features = features
        /\ chatSession[1].stack = techStack

\* C26: at most one analysis request is in flight at any time.
C26_SingleAnalysis == InFlight(analysisReqs) <= 1

\* C27: once no analysis and no generation request is in flight, the status
\* is idle, complete or error: analyzing and generating_code are only held
\* while a remote call is awaited.
C27_BusyOnlyWhileAwaiting ==
    (InFlight(analysisReqs) = 0 /\ InFlight(genReqs) = 0) => status \in {IDLE, COMPLETE, ERROR}

\* The last request in flight was a generation call, and it failed.
C27_Witness ==
    /\ ev.op = "genResponse"
    /\ ev.outcome = "throw"
    /\ InFlight(analysisReqs) = 0
    /\ InFlight(genReqs) = 0
    /\ status = COMPLETE

\* C28: isParsing is true exactly while an upload waits for its reader, its
\* text extraction or the gateway; every arrival brings the upload nearer to
\* its end, on every branch and outcome the end sets isParsing to false, and
\* an upload starts only while isParsing is false, so that at most one
\* upload is being parsed.
C28_ParsingEnds ==
    /\ [](isParsing <=> upload.pc \in {"reading", "extracting", "parsing"})
    /\ [][/\ (upload' # upload /\ upload.pc # "none") =>
                 <<upload.pc, upload'.pc>> \in
                     {<<"reading", "extracting">>, <<"reading", "parsing">>,
                      <<"extracting", "parsing">>, <<"reading", "none">>,
                      <<"extracting", "none">>, <<"parsing", "none">>}
          /\ (upload.pc # "none" /\ upload'.pc = "none") => ~isParsing'
          /\ (ev'.op = "handleFileUpload" /\ ev'.outcome # "nofile") => ~isParsing]_vars

\* A word-processor upload ended by the failure of its text extraction.
C28_Witness ==
    /\ ev.op = "extractDone"
    /\ ev.outcome = "throw"
    /\ ev.branch = "docx"
    /\ upload.pc = "none"
    /\ ~isParsing

\* C29: a parse error is shown only with no features stored, and the start
\* of an upload clears the parse error of the previous one.
C29_ErrorMeansNoFeatures ==
    /\ [](parseError # NoError => features = <<>>)
    /\ [][(ev'.op = "handleFileUpload" /\ ev'.outcome = "reading") =>
              parseError' = NoError]_vars

\* The upload of a blank text file ended with its message and no features.
C29_Witness ==
    /\ ev.op = "readerOnLoad"
    /\ ev.outcome = "blank"
    /\ parseError = TextNoFeatures
    /\ features = <<>>
    /\ ~isParsing

\* C30: after its first message the conversation alternates user and model
\* messages, with no turn outstanding it ends with a model message, and the
\* reply to a turn sent on a chat session that was replaced since is not
\* appended to the conversation.
C30_TurnsAlternate ==
    /\ [](\A i \in 2..Len(messages) :
              messages[i].role = (IF i % 2 = 0 THEN "user" ELSE "model"))
    /\ []((InFlight(turns) = 0 /\ Len(messages) > 0) =>
              messages[Len(messages)].role = "model")
    /\ [][(ev'.op = "sendMessageResponse" /\ Settled.old) => messages' = messages]_vars

====
